---- MODULE Spec2Model ----
(***************************************************************************)
(* Rule engine of src/app/app.py (analyze_and_suggest): extraction of      *)
(* SELECT statements from ABAP source text, table remapping, field list    *)
(* classification, SELECT SINGLE reconstruction and the ORDER BY policy.   *)
(*                                                                         *)
(* A text is a sequence of one-character strings, so that the regular      *)
(* expressions of the source are modelled by what they match, character by *)
(* character.  A message of an issue is a record naming its f-string       *)
(* template (kind) and the texts interpolated into it (a, b).              *)
(***************************************************************************)
EXTENDS Integers, Sequences, FiniteSets, TLC

VARIABLES code, run, pc, matches, idx, stmt, main_table, adjusted_code,
          issue_msgs, tables_to_replace, fields, explicit_fields,
          is_star_select, suggestions, found_issue, result

vars == <<code, run, pc, matches, idx, stmt, main_table, adjusted_code,
          issue_msgs, tables_to_replace, fields, explicit_fields,
          is_star_select, suggestions, found_issue, result>>

(* ------------------------------ bounds --------------------------------- *)
\* statements per source text, beyond the single-statement inputs
MaxStmts == 2
\* engine runs per behaviour: run 1 on a source text, later runs on an
\* adjusted statement produced by the run before
MaxRuns == 2

(* --------------------------- character classes ------------------------- *)
Uppers == <<"A","B","C","D","E","F","G","H","I","J","K","L","M","N","O","P","Q","R","S","T","U","V","W","X","Y","Z">>
Lowers == <<"a","b","c","d","e","f","g","h","i","j","k","l","m","n","o","p","q","r","s","t","u","v","w","x","y","z">>
Digits == <<"0","1","2","3","4","5","6","7","8","9">>

Range(s) == {s[i] : i \in 1..Len(s)}

\* \s of the re module, restricted to the whitespace the inputs use
SpaceChars == {" ", "\n", "\t"}
\* [a-zA-Z0-9_], which is also \w for ASCII text
WordChars == Range(Uppers) \cup Range(Lowers) \cup Range(Digits) \cup {"_"}
\* [a-zA-Z0-9_,\s~]
OrderChars == WordChars \cup SpaceChars \cup {",", "~"}

ToLower == [c \in Range(Uppers) |-> Lowers[CHOOSE i \in 1..26 : Uppers[i] = c]]
ToUpper == [c \in Range(Lowers) |-> Uppers[CHOOSE i \in 1..26 : Lowers[i] = c]]
Lower(c) == IF c \in DOMAIN ToLower THEN ToLower[c] ELSE c
Upper(c) == IF c \in DOMAIN ToUpper THEN ToUpper[c] ELSE c
LowerStr(s) == [i \in 1..Len(s) |-> Lower(s[i])]
UpperStr(s) == [i \in 1..Len(s) |-> Upper(s[i])]

(* ------------------------------ text helpers --------------------------- *)
\* re.IGNORECASE match of the lower-case literal lit at position i of s
MatchAt(s, i, lit) ==
    /\ i >= 1
    /\ i + Len(lit) - 1 <= Len(s)
    /\ \A k \in 1..Len(lit) : Lower(s[i + k - 1]) = lit[k]

\* case-sensitive match of lit at position i of s
ExactAt(s, i, lit) ==
    /\ i >= 1
    /\ i + Len(lit) - 1 <= Len(s)
    /\ \A k \in 1..Len(lit) : s[i + k - 1] = lit[k]

\* the least k in lo..hi with P(k), 0 when there is none: where a leftmost
\* or lazy regular-expression search stops
FirstIdx(lo, hi, P(_)) ==
    IF \E k \in lo..hi : P(k)
    THEN CHOOSE k \in lo..hi : P(k) /\ \A m \in lo..(k - 1) : ~P(m)
    ELSE 0

\* last index of the longest run of characters of class C starting at i
\* (i - 1 when the run is empty): a greedy C* at position i
RunEnd(s, i, C) ==
    LET k == FirstIdx(i, Len(s), LAMBDA x : s[x] \notin C) IN
    IF i > Len(s) THEN i - 1
    ELSE IF k = 0 THEN Len(s) ELSE k - 1

\* first index >= i of character c in s, 0 when there is none
Find(s, i, c) == FirstIdx(i, Len(s), LAMBDA x : s[x] = c)

\* \b in front of a word character at position i
BoundaryBefore(s, i) == i = 1 \/ s[i - 1] \notin WordChars
\* \b behind a word character at position i
BoundaryAfter(s, i) == i = Len(s) \/ s[i + 1] \notin WordChars

\* s without its trailing characters of class C
RTrim(s, C) ==
    IF \E k \in 1..Len(s) : s[k] \notin C
    THEN SubSeq(s, 1, CHOOSE k \in 1..Len(s) :
                          s[k] \notin C /\ \A m \in (k + 1)..Len(s) : s[m] \in C)
    ELSE <<>>

\* str.strip()
Strip(s) == RTrim(SubSeq(s, RunEnd(s, 1, SpaceChars) + 1, Len(s)), SpaceChars)

\* str.rstrip('.')
RStripDot(s) == RTrim(s, {"."})

\* sep.join(parts)
RECURSIVE Join(_, _)
Join(parts, sep) ==
    IF parts = <<>> THEN <<>>
    ELSE IF Len(parts) = 1 THEN parts[1]
    ELSE parts[1] \o sep \o Join(Tail(parts), sep)

\* s.replace(lit, ""), from i on
RECURSIVE RemoveFrom(_, _, _)
RemoveFrom(s, i, lit) ==
    LET m == FirstIdx(i, Len(s), LAMBDA x : ExactAt(s, x, lit)) IN
    IF m = 0 THEN SubSeq(s, i, Len(s))
    ELSE SubSeq(s, i, m - 1) \o RemoveFrom(s, m + Len(lit), lit)

Remove(s, lit) == RemoveFrom(s, 1, lit)

\* s.split(",")
RECURSIVE Split(_)
Split(s) ==
    LET c == Find(s, 1, ",") IN
    IF c = 0 THEN <<s>>
    ELSE <<SubSeq(s, 1, c - 1)>> \o Split(SubSeq(s, c + 1, Len(s)))

(* ----------------------- placeholders (configuration) ------------------ *)
TABLE_MAP ==
    (<<"M","A","R","C">> :> <<"N","S","D","M","_","V","_","M","A","R","C">>) @@
    (<<"M","A","R","D">> :> <<"N","S","D","M","_","V","_","M","A","R","D">>) @@
    (<<"K","O","N","V">> :> <<"P","R","C","D","_","E","L","E","M","E","N","T","S">>) @@
    (<<"J","_","1","B","B","R","A","N","C","H">> :> <<"P","_","B","U","S","I","N","E","S","S","P","L","A","C","E">>) @@
    (<<"J","_","1","I","M","O","V","E","N","D">> :> <<"L","F","A","1">>) @@
    (<<"J","_","1","I","M","O","C","U","S","T">> :> <<"K","N","A","1">>)

SUGGESTED_FIELDS ==
    (<<"N","S","D","M","_","V","_","M","A","R","C">> :> <<<<"M","A","T","N","R">>, <<"W","E","R","K","S">>>>) @@
    (<<"N","S","D","M","_","V","_","M","A","R","D">> :> <<<<"M","A","T","N","R">>, <<"W","E","R","K","S">>, <<"L","G","O","R","T">>>>) @@
    (<<"P","R","C","D","_","E","L","E","M","E","N","T","S">> :> <<<<"K","N","U","M","V">>, <<"K","P","O","S","N">>, <<"S","T","U","N","R">>, <<"Z","A","E","H","K">>>>) @@
    (<<"P","_","B","U","S","I","N","E","S","S","P","L","A","C","E">> :> <<<<"B","U","K","R","S",",","B","R","A","N","C","H">>>>) @@
    (<<"L","F","A","1">> :> <<<<"L","I","F","N","R">>>>) @@
    (<<"K","N","A","1">> :> <<<<"K","U","N","N","R">>>>)

\* ", ".join(SUGGESTED_FIELDS.get(table, []))
SuggestedFor(table) ==
    IF table \in DOMAIN SUGGESTED_FIELDS
    THEN Join(SUGGESTED_FIELDS[table], <<","," ">>) ELSE <<>>

FieldListPlaceholder == <<"<","f","i","e","l","d","_","l","i","s","t",">">>

(* --------------------------- statement extractor ----------------------- *)
\* select_full_pattern  (select[\s\S]+?from\s+([a-zA-Z0-9_]+)[\s\S]*?\.)
\* The tail of the pattern tried with its "from" at position j:
\* from, \s+, the table name, then anything up to the next period.
FromTail(s, j) ==
    LET w == RunEnd(s, j + 4, SpaceChars)
        t == RunEnd(s, w + 1, WordChars)
    IN  [ok    |-> /\ MatchAt(s, j, <<"f","r","o","m">>)
                   /\ w >= j + 4
                   /\ t >= w + 1
                   /\ Find(s, t + 1, ".") # 0,
         table |-> SubSeq(s, w + 1, t),
         end   |-> Find(s, t + 1, ".")]

\* the lazy [\s\S]+? : the first position >= j whose tail matches, else 0
FirstFrom(s, j) == FirstIdx(j, Len(s), LAMBDA x : FromTail(s, x).ok)

\* the leftmost start >= i of a match of the whole pattern, else 0
FirstSelect(s, i) ==
    FirstIdx(i, Len(s),
             LAMBDA x : MatchAt(s, x, <<"s","e","l","e","c","t">>) /\ FirstFrom(s, x + 7) # 0)

\* select_full_pattern.findall(code), scanning from position p
RECURSIVE FindAllFrom(_, _)
FindAllFrom(s, p) ==
    LET i == FirstSelect(s, p) IN
    IF i = 0 THEN <<>>
    ELSE LET m == FromTail(s, FirstFrom(s, i + 7)) IN
         <<[orig_stmt |-> SubSeq(s, i, m.end), main_table |-> m.table]>>
             \o FindAllFrom(s, m.end + 1)

FindAll(s) == FindAllFrom(s, 1)

(* --------------------------- table mapping resolver -------------------- *)
\* \bjoin\s+([a-zA-Z0-9_]+) tried at position i: the index of the last
\* character of the table name, 0 when there is no match
JoinEnd(s, i) ==
    LET w == RunEnd(s, i + 4, SpaceChars)
        t == RunEnd(s, w + 1, WordChars)
    IN  IF /\ BoundaryBefore(s, i)
           /\ MatchAt(s, i, <<"j","o","i","n">>)
           /\ w >= i + 4
           /\ t >= w + 1
        THEN t ELSE 0

\* join_pattern.findall(stmt), scanning from position p
RECURSIVE JoinTablesFrom(_, _)
JoinTablesFrom(s, p) ==
    LET i == FirstIdx(p, Len(s), LAMBDA x : JoinEnd(s, x) # 0) IN
    IF i = 0 THEN <<>>
    ELSE <<SubSeq(s, RunEnd(s, i + 4, SpaceChars) + 1, JoinEnd(s, i))>>
             \o JoinTablesFrom(s, JoinEnd(s, i) + 1)

JoinTables(s) == JoinTablesFrom(s, 1)

\* the keys of tables_to_replace in insertion order: the primary table when
\* mapped, then each mapped joined table not yet a key
RECURSIVE AddMapped(_, _)
AddMapped(keys, names) ==
    IF names = <<>> THEN keys
    ELSE LET u == UpperStr(names[1]) IN
         AddMapped(IF u \in DOMAIN TABLE_MAP /\ u \notin Range(keys)
                   THEN Append(keys, u) ELSE keys,
                   Tail(names))

TablesToReplace(s, table) == AddMapped(<<>>, <<table>> \o JoinTables(s))

\* \b{t_old}~ tried at position i
SelectorAt(s, i, t_old) ==
    /\ BoundaryBefore(s, i)
    /\ MatchAt(s, i, LowerStr(t_old))
    /\ ExactAt(s, i + Len(t_old), <<"~">>)

\* re.sub(rf'\b{t_old}~', f"{t_new}~", text, flags=re.IGNORECASE), from p on
RECURSIVE SubSelectorFrom(_, _, _, _)
SubSelectorFrom(s, p, t_old, t_new) ==
    LET i == FirstIdx(p, Len(s), LAMBDA x : SelectorAt(s, x, t_old)) IN
    IF i = 0 THEN SubSeq(s, p, Len(s))
    ELSE SubSeq(s, p, i - 1) \o t_new \o <<"~">>
             \o SubSelectorFrom(s, i + Len(t_old) + 1, t_old, t_new)

SubSelector(s, t_old, t_new) == SubSelectorFrom(s, 1, t_old, t_new)

\* (\bfrom|\bjoin)\s+{t_old}\b tried at position i: the index of the last
\* matched character, 0 when there is no match (both keywords are 4 long)
ClauseEnd(s, i, t_old) ==
    LET w == RunEnd(s, i + 4, SpaceChars)
        e == w + Len(t_old)
    IN  IF /\ BoundaryBefore(s, i)
           /\ (MatchAt(s, i, <<"f","r","o","m">>) \/ MatchAt(s, i, <<"j","o","i","n">>))
           /\ w >= i + 4
           /\ MatchAt(s, w + 1, LowerStr(t_old))
           /\ BoundaryAfter(s, e)
        THEN e ELSE 0

\* re.sub(rf'(\bfrom|\bjoin)\s+{t_old}\b', lambda m: f"{m.group(1)} {t_new}",
\*        text, flags=re.IGNORECASE), from p on
RECURSIVE SubClauseFrom(_, _, _, _)
SubClauseFrom(s, p, t_old, t_new) ==
    LET i == FirstIdx(p, Len(s), LAMBDA x : ClauseEnd(s, x, t_old) # 0) IN
    IF i = 0 THEN SubSeq(s, p, Len(s))
    ELSE SubSeq(s, p, i + 3) \o <<" ">> \o t_new
             \o SubClauseFrom(s, ClauseEnd(s, i, t_old) + 1, t_old, t_new)

SubClause(s, t_old, t_new) == SubClauseFrom(s, 1, t_old, t_new)

\* the loop over tables_to_replace.items(): both substitutions per table
RECURSIVE ReplaceTables(_, _)
ReplaceTables(text, keys) ==
    IF keys = <<>> THEN text
    ELSE ReplaceTables(
             SubClause(SubSelector(text, keys[1], TABLE_MAP[keys[1]]),
                       keys[1], TABLE_MAP[keys[1]]),
             Tail(keys))

Msg(kind, a, b) == [kind |-> kind, a |-> a, b |-> b]

\* "Use replacement table `{t_new}` instead of `{t_old}`." per replaced table
ReplaceMsgs(keys) ==
    [k \in 1..Len(keys) |-> Msg("use_replacement_table", TABLE_MAP[keys[k]], keys[k])]

\* the main table looked up without the replacements found for the statement
AdjustedMainTableNoRemap(keys, table) == UpperStr(table)

\* tables_to_replace.get(main_table_upper, main_table_upper)
AdjustedMainTable(keys, table) ==
    LET u == UpperStr(table) IN
    IF u \in Range(keys) THEN TABLE_MAP[u] ELSE u

(* ---------------------------- field list classifier -------------------- *)
\* \s+from tried at position q
SpaceFromAt(s, q) ==
    /\ q <= Len(s)
    /\ s[q] \in SpaceChars
    /\ MatchAt(s, RunEnd(s, q, SpaceChars) + 1, <<"f","r","o","m">>)

\* the lazy (.*?) of  select\s+(.*?)\s+from  started at g: the first q >= g
\* with \s+from at q, provided no newline lies in between ("." does not
\* match "\n"); 0 when there is none
FieldsEnd(s, g) ==
    LET q == FirstIdx(g, Len(s), LAMBDA x : SpaceFromAt(s, x) \/ s[x] = "\n") IN
    IF q # 0 /\ SpaceFromAt(s, q) THEN q ELSE 0

\* re.match(r"select\s+(.*?)\s+from", stmt, re.IGNORECASE): group(1).strip()
\* when it matches, "*" when it does not.  The first \s+ is greedy; it gives
\* whitespace back only when "from" follows the whitespace at once, and the
\* group is then empty.
SelFields(s) ==
    LET w == RunEnd(s, 7, SpaceChars)
        q == FieldsEnd(s, w + 1)
    IN  IF ~(MatchAt(s, 1, <<"s","e","l","e","c","t">>) /\ w >= 7) THEN <<"*">>
        ELSE IF q # 0 THEN Strip(SubSeq(s, w + 1, q - 1))
        ELSE IF w >= 8 /\ MatchAt(s, w + 1, <<"f","r","o","m">>) THEN <<>>
        ELSE <<"*">>

\* fields == "*" or fields.lower() == "distinct *"
IsStar(f) == f = <<"*">> \/ LowerStr(f) = <<"d","i","s","t","i","n","c","t"," ","*">>

\* [x.strip() for x in fields.replace("distinct","").split(",") if x.strip()]
\* joined with ", "
NormalizeFields(f) ==
    LET parts == Split(Remove(f, <<"d","i","s","t","i","n","c","t">>))
        kept  == SelectSeq([k \in 1..Len(parts) |-> Strip(parts[k])],
                           LAMBDA x : x # <<>>)
    IN  Join(kept, <<","," ">>)

\* re.sub(r"select\s+\*\s+from", f"SELECT {replacement_fields} FROM", text,
\*        flags=re.IGNORECASE), from i on
StarEnd(s, i) ==
    LET w == RunEnd(s, i + 6, SpaceChars)
        v == RunEnd(s, w + 2, SpaceChars)
    IN  IF /\ MatchAt(s, i, <<"s","e","l","e","c","t">>)
           /\ w >= i + 6
           /\ ExactAt(s, w + 1, <<"*">>)
           /\ v >= w + 2
           /\ MatchAt(s, v + 1, <<"f","r","o","m">>)
        THEN v + 4 ELSE 0

RECURSIVE SubStarFrom(_, _, _)
SubStarFrom(s, p, repl) ==
    LET i == FirstIdx(p, Len(s), LAMBDA x : StarEnd(s, x) # 0) IN
    IF i = 0 THEN SubSeq(s, p, Len(s))
    ELSE SubSeq(s, p, i - 1) \o <<"S","E","L","E","C","T"," ">> \o repl \o <<" ","F","R","O","M">>
             \o SubStarFrom(s, StarEnd(s, i) + 1, repl)

SubStar(s, repl) == SubStarFrom(s, 1, repl)

\* fields.strip().lower().startswith("single")
IsSingle(f) == MatchAt(Strip(f), 1, <<"s","i","n","g","l","e">>)

(* ------------------------------ single-row rewriter -------------------- *)
\* fields.strip()[len("single "):].strip()
AfterSingle(f) == Strip(SubSeq(Strip(f), Len(<<"s","i","n","g","l","e"," ">>) + 1, Len(Strip(f))))

\* \s+where\s+(.+?)\.?$  tried with its first \s at position p.  The lazy
\* group stops before a final period when there is one; "." does not match
\* "\n", and $ holds at the end of the (stripped) statement only.
WhereAt(s, p) ==
    LET wh == RunEnd(s, p, SpaceChars) + 1
        v  == RunEnd(s, wh + 5, SpaceChars)
        g  == v + 1
        e  == IF s[Len(s)] = "." /\ Len(s) - 1 >= g THEN Len(s) - 1 ELSE Len(s)
    IN  [ok    |-> /\ s[p] \in SpaceChars
                   /\ MatchAt(s, wh, <<"w","h","e","r","e">>)
                   /\ v >= wh + 5
                   /\ g <= Len(s)
                   /\ \A k \in g..e : s[k] # "\n",
         group |-> SubSeq(s, g, e)]

\* re.search of the pattern: the leftmost p that matches, 0 when none does
WhereStart(s) == FirstIdx(1, Len(s), LAMBDA x : WhereAt(s, x).ok)

\* f"WHERE {where_match.group(1).strip()}" if where_match else ""
WhereClause(s) ==
    LET p == WhereStart(s) IN
    IF p = 0 THEN <<>> ELSE <<"W","H","E","R","E"," ">> \o Strip(WhereAt(s, p).group)

\* lit in s.lower()
Contains(s, lit) == \E i \in 1..Len(s) : MatchAt(s, i, lit)

\* real_fields of the SELECT SINGLE branch, after the wildcard test on the
\* remainder of the field specification
RealFields(f, explicit, table) ==
    LET r0 == IF AfterSingle(f) = <<>> THEN explicit ELSE AfterSingle(f) IN
    IF IsStar(r0)
    THEN IF SuggestedFor(table) # <<>> THEN SuggestedFor(table)
         ELSE FieldListPlaceholder
    ELSE r0

\* f"SELECT {real_fields} FROM {new_table_str} {where_clause} UP TO 1 ROWS
\*   {order_by_clause}. ENDSELECT."
SingleRewrite(s, f, explicit, table) ==
    LET real == RealFields(f, explicit, table)
        ob   == IF real # FieldListPlaceholder THEN <<"O","R","D","E","R"," ","B","Y"," ">> \o real ELSE <<>>
    IN  <<"S","E","L","E","C","T"," ">> \o real \o <<" ","F","R","O","M"," ">> \o table \o <<" ">> \o WhereClause(s)
            \o <<" ","U","P"," ","T","O"," ","1"," ","R","O","W","S"," ">> \o ob \o <<"."," ","E","N","D","S","E","L","E","C","T",".">>

\* the messages of the SELECT SINGLE branch, line 143 included
SingleMsgs(s, f, explicit, table) ==
    LET r0 == IF AfterSingle(f) = <<>> THEN explicit ELSE AfterSingle(f) IN
    <<Msg("no_select_single", <<>>, <<>>)>>
      \o (IF IsStar(r0) /\ SuggestedFor(table) # <<>>
          THEN <<Msg("use_fields_instead_of_star", SuggestedFor(table), <<>>)>>
          ELSE <<>>)
      \o (IF Contains(s, <<"o","r","d","e","r"," ","b","y">>)
          THEN <<Msg("no_order_by_with_single", <<>>, <<>>)>>
          ELSE <<>>)

(* ----------------------------- ordering policy ------------------------- *)
\* for\s+all\s+entries\s+in\s+  tried at position i
FaeAt(s, i) ==
    LET w1 == RunEnd(s, i + 3, SpaceChars)
        w2 == RunEnd(s, w1 + 4, SpaceChars)
        w3 == RunEnd(s, w2 + 8, SpaceChars)
        w4 == RunEnd(s, w3 + 3, SpaceChars)
    IN  /\ MatchAt(s, i, <<"f","o","r">>)          /\ w1 >= i + 3
        /\ MatchAt(s, w1 + 1, <<"a","l","l">>)     /\ w2 >= w1 + 4
        /\ MatchAt(s, w2 + 1, <<"e","n","t","r","i","e","s">>) /\ w3 >= w2 + 8
        /\ MatchAt(s, w3 + 1, <<"i","n">>)      /\ w4 >= w3 + 3

\* bool(re.search(r"for\s+all\s+entries\s+in\s+", stmt, re.IGNORECASE))
FaePresent(s) == \E i \in 1..Len(s) : FaeAt(s, i)

\* order\s+by\s+([a-zA-Z0-9_,\s~]+)  tried at position i: the index of the
\* last matched character, 0 when there is no match.  The class contains \s,
\* so the match runs from the whitespace behind "by" to the end of the
\* longest run of class characters and needs two characters of that run.
OrderByEnd(s, i) ==
    LET w == RunEnd(s, i + 5, SpaceChars)
        b == w + 3
        e == RunEnd(s, b, OrderChars)
    IN  IF /\ MatchAt(s, i, <<"o","r","d","e","r">>)
           /\ w >= i + 5
           /\ MatchAt(s, w + 1, <<"b","y">>)
           /\ b <= Len(s)
           /\ s[b] \in SpaceChars
           /\ e >= b + 1
        THEN e ELSE 0

\* re.search of the pattern: the leftmost start of a match, 0 when none
OrderByStart(s) == FirstIdx(1, Len(s), LAMBDA x : OrderByEnd(s, x) # 0)

OrderByMatch(s) == OrderByStart(s) # 0

\* order_by_match.group(1).strip()
OrderFields(s) ==
    LET i == OrderByStart(s)
        w == RunEnd(s, i + 5, SpaceChars)
    IN  Strip(SubSeq(s, w + 3, OrderByEnd(s, i)))

\* re.sub(r"order\s+by\s+([a-zA-Z0-9_,\s~]+)", '', text, flags=re.IGNORECASE)
RECURSIVE SubOrderFrom(_, _)
SubOrderFrom(s, p) ==
    LET i == FirstIdx(p, Len(s), LAMBDA x : OrderByEnd(s, x) # 0) IN
    IF i = 0 THEN SubSeq(s, p, Len(s))
    ELSE SubSeq(s, p, i - 1) \o SubOrderFrom(s, OrderByEnd(s, i) + 1)

SubOrder(s) == SubOrderFrom(s, 1)

\* explicit_fields if not is_star_select else
\*   ", ".join(SUGGESTED_FIELDS.get(adjusted_main_table, []))
ResolvedFields(explicit, star, table) ==
    IF star THEN SuggestedFor(table) ELSE explicit

\* the clause appended behind the statement's period instead of in front of it
AppendOrderByKeepPeriod(text, order_by_fields) ==
    Strip(text) \o <<" ","O","R","D","E","R"," ","B","Y"," ">> \o order_by_fields \o <<".">>

\* adjusted_code.rstrip('.').strip() + f" ORDER BY {order_by_fields}."
AppendOrderBy(text, order_by_fields) ==
    Strip(RStripDot(text)) \o <<" ","O","R","D","E","R"," ","B","Y"," ">> \o order_by_fields \o <<".">>

(* -------------------------------- inputs ------------------------------- *)
Modifiers == {<<>>, <<"S","I","N","G","L","E"," ">>, <<"D","I","S","T","I","N","C","T"," ">>}
FieldLists == {<<"*">>, <<"a">>, <<"a",",","b">>, <<"a",",","\n","b">>, <<"M","A","R","C","~","a">>}
Tables == {<<"z","t">>, <<"M","A","R","C">>, <<"K","N","A","1">>}
JoinClause == <<" ","J","O","I","N"," ","M","A","R","C"," ","O","N"," ","M","A","R","C","~","a"," ","="," ","z","t","~","a">>
FaeClause == <<" ","F","O","R"," ","A","L","L"," ","E","N","T","R","I","E","S"," ","I","N"," ","i","t">>
WhereCond == <<" ","W","H","E","R","E"," ","W","E","R","K","S"," ","="," ","'","1","0","0","0","'">>
OrderClause == <<" ","O","R","D","E","R"," ","B","Y"," ","a">>
IntoClause == <<" ","I","N","T","O"," ","T","A","B","L","E"," ","t">>
Opt(x) == {<<>>, x}

\* one period-terminated SELECT statement
Statement(m, f, t, j, a, w, o, i) ==
    <<"S","E","L","E","C","T"," ">> \o m \o f \o <<" ","F","R","O","M"," ">> \o t \o j \o a \o w \o o \o i \o <<".">>

CoreStatements ==
    {Statement(m, f, t, <<>>, a, w, o, i) :
        m \in Modifiers, f \in FieldLists, t \in Tables, a \in Opt(FaeClause),
        w \in Opt(WhereCond), o \in Opt(OrderClause), i \in Opt(IntoClause)}

JoinStatements ==
    {Statement(m, f, <<"z","t">>, JoinClause, <<>>, <<>>, o, <<>>) :
        m \in Modifiers, f \in FieldLists, o \in Opt(OrderClause)}

SmallStatements ==
    {<<"S","E","L","E","C","T"," ","a"," ","F","R","O","M"," ","z","t",".">>, <<"s","e","l","e","c","t"," ","*"," ","f","r","o","m"," ","m","a","r","c",".">>, <<"S","E","L","E","C","T"," ","a"," ","F","R","O","M"," ","z","t"," ","O","R","D","E","R"," ","B","Y"," ","a",".">>}

\* a period-terminated statement without FROM in front of a SELECT statement
PrefixedTexts == {<<"s","e","l","e","c","t"," ","x","."," ">> \o s : s \in SmallStatements}

\* source texts of 2 .. MaxStmts statements
MultiTexts ==
    UNION {{Join(q, <<"\n">>) : q \in [1..n -> SmallStatements]} : n \in 2..MaxStmts}

SourceTexts ==
    CoreStatements \cup JoinStatements \cup PrefixedTexts \cup MultiTexts
        \cup {<<"W","R","I","T","E"," ","x",".">>}

(* ------------------------------ state machine -------------------------- *)
\* the per-statement variables before a statement is loaded
NoStatement ==
    /\ stmt' = <<>>
    /\ main_table' = <<>>
    /\ adjusted_code' = <<>>
    /\ issue_msgs' = <<>>
    /\ tables_to_replace' = <<>>
    /\ fields' = <<>>
    /\ explicit_fields' = <<>>
    /\ is_star_select' = FALSE

Init ==
    /\ code \in SourceTexts
    /\ run = 1
    /\ pc = "findall"
    /\ matches = <<>>
    /\ idx = 1
    /\ stmt = <<>>
    /\ main_table = <<>>
    /\ adjusted_code = <<>>
    /\ issue_msgs = <<>>
    /\ tables_to_replace = <<>>
    /\ fields = <<>>
    /\ explicit_fields = <<>>
    /\ is_star_select = FALSE
    /\ suggestions = <<>>
    /\ found_issue = FALSE
    /\ result = <<>>

\* lines 45-53: the matches of select_full_pattern in the source text
FindStatements ==
    /\ pc = "findall"
    /\ matches' = FindAll(code)
    /\ idx' = 1
    /\ suggestions' = <<>>
    /\ found_issue' = FALSE
    /\ pc' = "loop"
    /\ UNCHANGED <<code, run, stmt, main_table, adjusted_code, issue_msgs,
                   tables_to_replace, fields, explicit_fields, is_star_select,
                   result>>

\* lines 53-59: the next match becomes the statement at hand
BeginStatement ==
    /\ pc = "loop"
    /\ idx <= Len(matches)
    /\ stmt' = Strip(matches[idx].orig_stmt)
    /\ main_table' = matches[idx].main_table
    /\ adjusted_code' = Strip(matches[idx].orig_stmt)
    /\ issue_msgs' = <<>>
    /\ tables_to_replace' = <<>>
    /\ fields' = <<>>
    /\ explicit_fields' = <<>>
    /\ is_star_select' = FALSE
    /\ pc' = "tables"
    /\ UNCHANGED <<code, run, matches, idx, suggestions, found_issue, result>>

\* lines 61-80
ResolveTables ==
    /\ pc = "tables"
    /\ tables_to_replace' = TablesToReplace(stmt, main_table)
    /\ issue_msgs' = issue_msgs \o ReplaceMsgs(tables_to_replace')
    /\ adjusted_code' = ReplaceTables(adjusted_code, tables_to_replace')
    /\ pc' = "fields"
    /\ UNCHANGED <<code, run, matches, idx, stmt, main_table, fields,
                   explicit_fields, is_star_select, suggestions, found_issue,
                   result>>

\* lines 83-114
ClassifyFields ==
    LET f    == SelFields(stmt)
        repl == SuggestedFor(AdjustedMainTable(tables_to_replace, main_table))
    IN
    /\ pc = "fields"
    /\ fields' = f
    /\ is_star_select' = IsStar(f)
    /\ IF IsStar(f)
       THEN /\ issue_msgs' = Append(issue_msgs,
                                IF repl # <<>>
                                THEN Msg("avoid_star_use_fields", repl, <<>>)
                                ELSE Msg("avoid_star_explicit_list", <<>>, <<>>))
            /\ explicit_fields' = (IF repl # <<>> THEN repl ELSE FieldListPlaceholder)
            /\ adjusted_code' = SubStar(adjusted_code, explicit_fields')
       ELSE /\ explicit_fields' = NormalizeFields(f)
            /\ UNCHANGED <<issue_msgs, adjusted_code>>
    /\ pc' = "single"
    /\ UNCHANGED <<code, run, matches, idx, stmt, main_table,
                   tables_to_replace, suggestions, found_issue, result>>

\* lines 117-144
RewriteSingle ==
    LET table == AdjustedMainTable(tables_to_replace, main_table) IN
    /\ pc = "single"
    /\ IF IsSingle(fields)
       THEN /\ issue_msgs' = issue_msgs
                                \o SingleMsgs(stmt, fields, explicit_fields, table)
            /\ adjusted_code' = SingleRewrite(stmt, fields, explicit_fields, table)
       ELSE UNCHANGED <<issue_msgs, adjusted_code>>
    /\ pc' = "ordering"
    /\ UNCHANGED <<code, run, matches, idx, stmt, main_table,
                   tables_to_replace, fields, explicit_fields, is_star_select,
                   suggestions, found_issue, result>>

\* lines 147-175
ApplyOrdering ==
    LET table    == AdjustedMainTable(tables_to_replace, main_table)
        resolved == ResolvedFields(explicit_fields, is_star_select, table)
        usable   == resolved # <<>> /\ resolved # FieldListPlaceholder
    IN
    /\ pc = "ordering"
    /\ IF FaePresent(stmt)
       THEN IF OrderByMatch(stmt)
            THEN /\ issue_msgs' = Append(issue_msgs,
                                     Msg("fae_sort_not_order_by", OrderFields(stmt), <<>>))
                 /\ adjusted_code' = SubOrder(adjusted_code)
            ELSE /\ issue_msgs' = (IF ~IsSingle(fields) /\ usable
                                   THEN Append(issue_msgs, Msg("sort_itab_by", resolved, <<>>))
                                   ELSE issue_msgs)
                 /\ UNCHANGED adjusted_code
       ELSE IF ~IsSingle(fields) /\ ~OrderByMatch(stmt) /\ usable
            THEN /\ issue_msgs' = Append(issue_msgs, Msg("add_order_by", resolved, <<>>))
                 /\ adjusted_code' = AppendOrderBy(adjusted_code, resolved)
            ELSE UNCHANGED <<issue_msgs, adjusted_code>>
    /\ pc' = "aggregate"
    /\ UNCHANGED <<code, run, matches, idx, stmt, main_table,
                   tables_to_replace, fields, explicit_fields, is_star_select,
                   suggestions, found_issue, result>>

\* lines 177-183
Aggregate ==
    /\ pc = "aggregate"
    /\ IF issue_msgs # <<>>
       THEN /\ found_issue' = TRUE
            /\ suggestions' = Append(suggestions,
                                  [suggestion    |-> issue_msgs,
                                   snippet       |-> stmt,
                                   adjusted_code |-> adjusted_code])
       ELSE UNCHANGED <<found_issue, suggestions>>
    /\ idx' = idx + 1
    /\ pc' = "loop"
    /\ UNCHANGED <<code, run, matches, stmt, main_table, adjusted_code,
                   issue_msgs, tables_to_replace, fields, explicit_fields,
                   is_star_select, result>>

\* lines 185-187: {} or {"issues": suggestions}; result is the issue list
Return ==
    /\ pc = "loop"
    /\ idx > Len(matches)
    /\ result' = (IF found_issue THEN suggestions ELSE <<>>)
    /\ pc' = "done"
    /\ NoStatement
    /\ UNCHANGED <<code, run, matches, idx, suggestions, found_issue>>

\* lines 190-199: the caller submits another unit; here its code is the
\* adjusted statement of an issue of the run before
Rerun ==
    /\ pc = "done"
    /\ run < MaxRuns
    /\ \E k \in DOMAIN result : code' = result[k].adjusted_code
    /\ run' = run + 1
    /\ pc' = "findall"
    /\ matches' = <<>>
    /\ idx' = 1
    /\ suggestions' = <<>>
    /\ found_issue' = FALSE
    /\ result' = <<>>
    /\ NoStatement

Next ==
    \/ FindStatements
    \/ BeginStatement
    \/ ResolveTables
    \/ ClassifyFields
    \/ RewriteSingle
    \/ ApplyOrdering
    \/ Aggregate
    \/ Return
    \/ Rerun

Spec == Init /\ [][Next]_vars

(***************************************************************************)
(* What a statement says, read off its text alone.  These definitions are  *)
(* the vocabulary of the properties below; the engine does not use them.   *)
(***************************************************************************)
\* the text between the leading SELECT and the first FROM, on however many
\* lines it is written
WrittenFields(s) ==
    LET w == RunEnd(s, 7, SpaceChars)
        q == FirstIdx(w + 1, Len(s), LAMBDA x : SpaceFromAt(s, x))
    IN  IF MatchAt(s, 1, <<"s","e","l","e","c","t">>) /\ w >= 7 /\ q # 0
        THEN SubSeq(s, w + 1, q - 1) ELSE <<>>

\* the projection is * or DISTINCT *
Wildcard(f) == LowerStr(f) \in {<<"*">>, <<"d","i","s","t","i","n","c","t"," ","*">>}

\* the statement is SELECT SINGLE ...
SingleRow(s) ==
    /\ MatchAt(WrittenFields(s), 1, <<"s","i","n","g","l","e">>)
    /\ Len(WrittenFields(s)) > 6
    /\ WrittenFields(s)[7] \in SpaceChars

\* the field list of a SELECT SINGLE statement
SingleList(s) == Strip(SubSeq(WrittenFields(s), 7, Len(WrittenFields(s))))

\* the statement projects a field list of its own: not a wildcard, not SINGLE
ExplicitList(s) ==
    /\ WrittenFields(s) # <<>>
    /\ ~Wildcard(WrittenFields(s))
    /\ ~SingleRow(s)

HasOrderBy(s) == Contains(s, <<"o","r","d","e","r"," ","b","y">>)
HasFae(s) == Contains(s, <<"f","o","r"," ","a","l","l"," ","e","n","t","r","i","e","s">>)
HasWhere(s) == Contains(s, <<" ","w","h","e","r","e"," ">>)

\* a FROM or JOIN clause of s names table t
HasClause(s, t) == \E i \in 1..Len(s) : ClauseEnd(s, i, t) # 0
\* s qualifies a field with table t
HasSelector(s, t) == \E i \in 1..Len(s) : SelectorAt(s, i, t)
\* the deprecated tables a statement reads
Deprecated(s) == {t \in DOMAIN TABLE_MAP : HasClause(s, t)}

\* the primary table of a statement, and what it is remapped to
PrimaryTable(s) == UpperStr(FindAll(s)[1].main_table)
CurrentTable(t) == IF t \in DOMAIN TABLE_MAP THEN TABLE_MAP[t] ELSE t

\* text with its whitespace taken out: the properties do not depend on spacing
Squeeze(s) == SelectSeq(s, LAMBDA c : c \notin SpaceChars)

\* lit occurs in s, letter case included
Occurs(s, lit) == \E i \in 1..Len(s) : ExactAt(s, i, lit)

\* some message of an issue has the kind and first argument given
Mentions(msgs, kind, a) ==
    \E k \in 1..Len(msgs) : msgs[k].kind = kind /\ msgs[k].a = a

\* An ORDER BY clause as SQL reads it: the keyword and a comma-separated list
\* of (qualified) field names, ending with the last name of the list.
NameChars == WordChars \cup {"~"}

\* the last index of the list whose first name starts at i
RECURSIVE ListEnd(_, _)
ListEnd(t, i) ==
    LET e == RunEnd(t, i, NameChars)
        c == RunEnd(t, e + 1, SpaceChars) + 1
        n == RunEnd(t, c + 1, SpaceChars) + 1
    IN  IF c <= Len(t) /\ t[c] = "," /\ n <= Len(t) /\ t[n] \in NameChars
        THEN ListEnd(t, n) ELSE e

\* the first name of the list of the clause that starts at i, 0 if none does
ListStart(t, i) ==
    LET w == RunEnd(t, i + 5, SpaceChars)
        v == RunEnd(t, w + 3, SpaceChars)
    IN  IF /\ MatchAt(t, i, <<"o","r","d","e","r">>) /\ w >= i + 5
           /\ MatchAt(t, w + 1, <<"b","y">>) /\ v >= w + 3
           /\ v + 1 <= Len(t) /\ t[v + 1] \in NameChars
        THEN v + 1 ELSE 0

\* t with every ORDER BY clause (keyword and list) taken out, from p on
RECURSIVE WithoutOrderByFrom(_, _)
WithoutOrderByFrom(t, p) ==
    LET i == FirstIdx(p, Len(t), LAMBDA x : ListStart(t, x) # 0) IN
    IF i = 0 THEN SubSeq(t, p, Len(t))
    ELSE SubSeq(t, p, i - 1) \o WithoutOrderByFrom(t, ListEnd(t, ListStart(t, i)) + 1)

WithoutOrderBy(t) == WithoutOrderByFrom(t, 1)

\* the field list of the first ORDER BY clause of t
OrderByList(t) ==
    LET i == FirstIdx(1, Len(t), LAMBDA x : ListStart(t, x) # 0) IN
    IF i = 0 THEN <<>> ELSE SubSeq(t, ListStart(t, i), ListEnd(t, ListStart(t, i)))

\* the source text holds one statement, analysed to the end
OneStatementDone == pc = "done" /\ Len(matches) = 1

(* -------------------------------- properties --------------------------- *)

\* C1: a statement on tables outside TABLE_MAP with a field list of its own,
\* not SELECT SINGLE, without ORDER BY and without FOR ALL ENTRIES yields
\* exactly one issue, and its adjusted code is the statement with
\* ORDER BY <the field list as written> put in front of the final period.
\* (Spacing is not compared: "a,b" and "a, b" are the same list.)
C1_OrderByAppended ==
    (OneStatementDone /\ run = 1) =>
        LET s == matches[1].orig_stmt IN
        ( /\ Deprecated(s) = {}
          /\ PrimaryTable(s) \notin DOMAIN TABLE_MAP
          /\ ExplicitList(s)
          /\ ~HasOrderBy(s)
          /\ ~HasFae(s) )
        => /\ Len(result) = 1
           /\ Squeeze(result[1].adjusted_code)
                = Squeeze(SubSeq(s, 1, Len(s) - 1) \o <<" ","O","R","D","E","R"," ","B","Y"," ">>
                            \o WrittenFields(s) \o <<".">>)

C2_Input == <<"S","E","L","E","C","T"," ","*"," ","F","R","O","M"," ","M","A","R","C"," ","W","H","E","R","E"," ","W","E","R","K","S"," ","="," ","'","1","0","0","0","'",".">>
C2_StatedCode ==
    <<"S","E","L","E","C","T"," ","M","A","T","N","R",","," ","W","E","R","K","S"," ","F","R","O","M"," ","N","S","D","M","_","V","_","M","A","R","C"," ","W","H","E","R","E"," ","W","E","R","K","S"," ","="," ","'","1","0","0","0","'","."," ","O","R","D","E","R"," ","B","Y"," ","M","A","T","N","R",","," ","W","E","R","K","S",".">>
C2_ActualCode ==
    <<"S","E","L","E","C","T"," ","M","A","T","N","R",","," ","W","E","R","K","S"," ","F","R","O","M"," ","N","S","D","M","_","V","_","M","A","R","C"," ","W","H","E","R","E"," ","W","E","R","K","S"," ","="," ","'","1","0","0","0","'"," ","O","R","D","E","R"," ","B","Y"," ","M","A","T","N","R",","," ","W","E","R","K","S",".">>

\* the one issue of the scenario of C2 and what its suggestion mentions
C2_OneIssue ==
    /\ Len(result) = 1
    /\ Mentions(result[1].suggestion, "use_replacement_table", <<"N","S","D","M","_","V","_","M","A","R","C">>)
    /\ Mentions(result[1].suggestion, "avoid_star_use_fields", <<"M","A","T","N","R",","," ","W","E","R","K","S">>)

\* C2 as stated: for SELECT * FROM MARC WHERE WERKS = '1000'. there is one
\* issue, it mentions NSDM_V_MARC and MATNR, WERKS, and its adjusted code
\* keeps the statement's period in front of the appended ORDER BY clause.
C2_Original ==
    (pc = "done" /\ code = C2_Input) =>
        (C2_OneIssue /\ result[1].adjusted_code = C2_StatedCode)

\* C2 as amended: the same, but the ORDER BY clause is appended in front of
\* the statement's period, so the adjusted code holds one period, at its end.
C2_Scenario ==
    (pc = "done" /\ code = C2_Input) =>
        (C2_OneIssue /\ result[1].adjusted_code = C2_ActualCode)

C2_Witness == pc = "done" /\ code = C2_Input /\ Len(result) = 1

\* C3: when a statement has FOR ALL ENTRIES and an ORDER BY clause, the
\* ordering step leaves no ORDER BY in the adjusted code, takes out nothing
\* but the ORDER BY keyword and its field list, and its message names the
\* fields of the statement's ORDER BY clause.
C3_OnlyOrderByRemoved ==
    [][(pc = "ordering" /\ HasFae(stmt) /\ HasOrderBy(stmt)) =>
          /\ ~HasOrderBy(adjusted_code')
          /\ Squeeze(adjusted_code') = Squeeze(WithoutOrderBy(adjusted_code))
          /\ issue_msgs' # <<>>
          /\ Squeeze(issue_msgs'[Len(issue_msgs')].a) = Squeeze(OrderByList(stmt))
      ]_vars

\* C4: the adjusted code of a SELECT SINGLE statement with a field list of
\* its own and no WHERE clause is
\* SELECT <fields> FROM <table>  UP TO 1 ROWS ORDER BY <fields>. ENDSELECT.
\* with the statement's field list in both places.
C4_SingleIdiom ==
    pc = "done" =>
        \A k \in 1..Len(result) :
            LET s == result[k].snippet IN
            ( /\ SingleRow(s)
              /\ SingleList(s) # <<>>
              /\ ~Wildcard(SingleList(s))
              /\ ~HasWhere(s) )
            => result[k].adjusted_code
                 = <<"S","E","L","E","C","T"," ">> \o SingleList(s) \o <<" ","F","R","O","M"," ">>
                     \o CurrentTable(PrimaryTable(s))
                     \o <<" "," ","U","P"," ","T","O"," ","1"," ","R","O","W","S"," ","O","R","D","E","R"," ","B","Y"," ">> \o SingleList(s)
                     \o <<"."," ","E","N","D","S","E","L","E","C","T",".">>

\* C5: when the engine is run on an adjusted statement that has a field list
\* of its own, reads no deprecated table and carries an ORDER BY, it finds
\* no issue.
C5_Idempotent ==
    ( /\ pc = "done"
      /\ run > 1
      /\ ExplicitList(code)
      /\ Deprecated(code) = {}
      /\ HasOrderBy(code) )
    => result = <<>>

\* what * is replaced by for a statement: the suggested fields of its
\* (remapped) primary table, the placeholder when there are none
ExpectedProjection(s) ==
    LET sug == SuggestedFor(CurrentTable(PrimaryTable(s))) IN
    IF sug # <<>> THEN sug ELSE FieldListPlaceholder

\* every FROM/JOIN clause of s on a deprecated table names the new table in a
RemappedClauses(s, a) ==
    \A t \in Deprecated(s) : ~HasClause(a, t) /\ HasClause(a, TABLE_MAP[t])

\* C6 as stated: for SELECT * on a statement that reads a table of TABLE_MAP
\* (as FROM table or as joined table), the adjusted code projects the
\* suggested fields of the replacement table and every FROM/JOIN clause on
\* the old table names the new one.
C6_Original ==
    pc = "done" =>
        \A k \in 1..Len(result) :
            LET s == result[k].snippet
                a == result[k].adjusted_code
            IN  (WrittenFields(s) = <<"*">> /\ Deprecated(s) # {})
                => /\ \E t \in Deprecated(s) :
                          WrittenFields(a) = SuggestedFor(TABLE_MAP[t])
                   /\ RemappedClauses(s, a)

\* C6 as amended: ... the adjusted code projects the suggested fields of the
\* (remapped) primary table, or the placeholder <field_list> when that table
\* has none (a statement whose only deprecated table is a joined one), and
\* every FROM/JOIN clause on the old table names the new one.
C6_StarReplaced ==
    pc = "done" =>
        \A k \in 1..Len(result) :
            LET s == result[k].snippet
                a == result[k].adjusted_code
            IN  (WrittenFields(s) = <<"*">> /\ Deprecated(s) # {})
                => /\ WrittenFields(a) = ExpectedProjection(s)
                   /\ RemappedClauses(s, a)

C6_Witness ==
    /\ pc = "done"
    /\ \E k \in 1..Len(result) :
          /\ WrittenFields(result[k].snippet) = <<"*">>
          /\ Deprecated(result[k].snippet) # {}
          /\ PrimaryTable(result[k].snippet) \notin DOMAIN TABLE_MAP
          /\ WrittenFields(result[k].adjusted_code) = FieldListPlaceholder

\* C7: for a SELECT SINGLE statement the ordering step emits no message and
\* leaves the adjusted statement as the single-row reconstruction made it,
\* which bounds the result with UP TO 1 ROWS.
C7_SingleUntouched ==
    [][(pc = "ordering" /\ SingleRow(stmt)) =>
          /\ issue_msgs' = issue_msgs
          /\ adjusted_code' = adjusted_code
          /\ Contains(adjusted_code', <<"u","p"," ","t","o"," ","1"," ","r","o","w","s">>)
      ]_vars

\* C8: the adjusted code of an issue holds no T~ field selector and no
\* FROM T / JOIN T clause for any table T of TABLE_MAP that the statement
\* reads.
C8_NoOldTable ==
    pc = "done" =>
        \A k \in 1..Len(result) :
            \A t \in Deprecated(result[k].snippet) :
                /\ ~HasSelector(result[k].adjusted_code, t)
                /\ ~HasClause(result[k].adjusted_code, t)

\* C9: for a statement that projects * or DISTINCT * (not SELECT SINGLE), the
\* projection of the adjusted code holds no * any more but the suggested
\* fields of the (remapped) primary table, or the placeholder, and the issue
\* carries a message against SELECT *.
C9_WildcardGone ==
    pc = "done" =>
        \A k \in 1..Len(result) :
            LET s == result[k].snippet
                a == result[k].adjusted_code
            IN  Wildcard(WrittenFields(s))
                => /\ "*" \notin Range(WrittenFields(a))
                   /\ Occurs(WrittenFields(a), ExpectedProjection(s))
                   /\ \E m \in 1..Len(result[k].suggestion) :
                          result[k].suggestion[m].kind
                            \in {"avoid_star_use_fields", "avoid_star_explicit_list"}

\* C10: every extracted match starts at select, has a from clause and holds
\* exactly one period, its last character: adjacent statements are not
\* merged into one match.
C10_OneStatementPerMatch ==
    \A k \in 1..Len(matches) :
        LET m == matches[k].orig_stmt IN
        /\ MatchAt(m, 1, <<"s","e","l","e","c","t">>)
        /\ Contains(m, <<"f","r","o","m">>)
        /\ m[Len(m)] = "."
        /\ \A i \in 1..(Len(m) - 1) : m[i] # "."
====
